---- MODULE Spec2Model ----
(***************************************************************************)
(* Verification model of the protein-representation-learning classifiers:  *)
(*   - EnsembleGraphClassifier (models/ensemble/ensemble.py)               *)
(*   - ProtMotionNet / PairedProtMotionNet / TransformerPairedProtMotionNet*)
(*     constructor-parameter serialization and paired forward arity        *)
(*     (models/classification/protmotionnet.py)                            *)
(*   - train_paired_classifier (models/classification/protmotionnet.py)    *)
(*   - the constructors of the ensemble and of the classifiers, the dense  *)
(*     head, and the paired forward pass from the two batches to the       *)
(*     readout, with PairedProtMotionNet.test                              *)
(* Each subsystem has its own specification over the shared variables.     *)
(***************************************************************************)
EXTENDS Integers, Sequences, FiniteSets, TLC

VARIABLES
    \* ---- EnsembleGraphClassifier
    ensemble_mode,      \* self.__ensemble_mode
    weights,            \* self.__weights, one per model
    preds_ensemble,     \* softmax outputs, shape (B, N_MODELS, N_CLASSES), in percent
    return_probs,       \* argument of ensemble()
    ens_result,         \* what ensemble() returned or raised
    ens_init,           \* the call of EnsembleGraphClassifier(...) and how it ended
    \* ---- constructor-parameter serialization
    net,                \* the classifier instance that is serialized
    constructor_params, \* the dict returned by serialize_constructor_params
    des_cls,            \* the class from_constructor_params was called on
    des_result,         \* what from_constructor_params returned or raised
    init_call,          \* a direct constructor call cls(**kwargs) and how it ended
    dense_ops,          \* the operations _apply_dense_layers applied, in order
    \* ---- PairedProtMotionNet.forward
    fwd_args,           \* the six arguments of the call
    fwd_result,         \* what the call did: the two graph batches used, or the error
    fusion,             \* a forward call on two graph batches, followed to the readout
    test_call,          \* a call of PairedProtMotionNet.test and how it ended
    \* ---- train_paired_classifier
    pc,                 \* the step the function is at
    epochs,             \* parameter epochs
    early_stopping_patience,
    early_stopping_delta,
    epoch,              \* the loop variable of "for epoch in range(0, epochs)"
    monitor,            \* the EarlyStopping object
    checkpoint,         \* the file at checkpoint_path
    model_weights,      \* which weights the model holds: k after k training epochs
    loss_of,            \* loss_of[k + 1]: validation loss of the weights after k epochs
    mht,                \* MetricsHistoryTracer: metric name -> series
    outcome,            \* what train_paired_classifier returned or raised
    trace               \* the steps executed so far, in order

ensVars == <<ensemble_mode, weights, preds_ensemble, return_probs, ens_result, ens_init>>
serVars == <<net, constructor_params, des_cls, des_result, init_call, dense_ops>>
fwdVars == <<fwd_args, fwd_result, fusion, test_call>>
trainVars == <<pc, epochs, early_stopping_patience, early_stopping_delta, epoch, monitor,
               checkpoint, model_weights, loss_of, mht, outcome, trace>>
vars == <<ensVars, serVars, fwdVars, trainVars>>

(***************************************************************************)
(* Bounds of the model                                                     *)
(***************************************************************************)
MaxWeight == 2
MaxBatch == 1
MaxTuple == 3
MaxEpochs == 3
MaxPatience == 2
MaxLayers == 3
MaxGraphs == 2
MaxNodes == 3
ModelCounts == {2, 3}

(***************************************************************************)
(* The state of a subsystem that a specification does not exercise         *)
(***************************************************************************)
EnsIdle ==
    /\ ensemble_mode = "softmax_mean"
    /\ weights = <<1, 1>>
    /\ preds_ensemble = << >>
    /\ return_probs = FALSE
    /\ ens_result = [kind |-> "none"]
    /\ ens_init = [kind |-> "none"]

SerIdle ==
    /\ net = [cls |-> "none"]
    /\ constructor_params = [k \in {} |-> 0]
    /\ des_cls = "none"
    /\ des_result = [kind |-> "none"]
    /\ init_call = [kind |-> "none"]
    /\ dense_ops = << >>

FwdIdle ==
    /\ fwd_args = [form |-> "none"]
    /\ fwd_result = [kind |-> "none"]
    /\ fusion = [kind |-> "none"]
    /\ test_call = [kind |-> "none"]

TrainIdle ==
    /\ pc = "idle"
    /\ epochs = 0
    /\ early_stopping_patience = 1
    /\ early_stopping_delta = 0
    /\ epoch = 0
    /\ monitor = [seen |-> FALSE, best |-> 0, counter |-> 0, early_stop |-> FALSE]
    /\ checkpoint = [state |-> "absent"]
    /\ model_weights = 0
    /\ loss_of = << >>
    /\ mht = << >>
    /\ outcome = [kind |-> "none"]
    /\ trace = << >>

(***************************************************************************)
(* Generic helpers                                                         *)
(***************************************************************************)
RECURSIVE SumSeq(_)
SumSeq(s) == IF s = << >> THEN 0 ELSE Head(s) + SumSeq(Tail(s))

MaxOfSeq(s) == CHOOSE m \in {s[i] : i \in DOMAIN s} : \A i \in DOMAIN s : s[i] <= m

SeqsOfLen(S, n) == [1..n -> S]

(***************************************************************************)
(* EnsembleGraphClassifier                                                 *)
(***************************************************************************)
VOTING == "voting"
SOFTMAX_MEAN == "softmax_mean"
ENSEMBLE_MODES == {SOFTMAX_MEAN, VOTING}
\* the setter stores any string; "per_model" stands for every unsupported one
AnyModes == ENSEMBLE_MODES \cup {"per_model"}

\* class-probability vectors a member model can produce (softmax output, percent)
ProbVecs == { <<70, 20, 10>>, <<60, 30, 10>>, <<10, 80, 10>>, <<20, 20, 60>> }

NoResult == [kind |-> "none"]

\* torch.argmax over a vector of numbers: 0-based index of the first maximal value
ArgMax(s) ==
    (CHOOSE i \in DOMAIN s :
        /\ \A j \in DOMAIN s : s[j] <= s[i]
        /\ \A j \in DOMAIN s : j < i => s[j] < s[i]) - 1

\* torch.einsum("j,ijk -> ijk", weights, preds): scale model j's vector by w_j
Einsum(w, preds) ==
    [i \in DOMAIN preds |->
        [j \in DOMAIN preds[i] |->
            [k \in DOMAIN preds[i][j] |-> w[j] * preds[i][j][k]]]]

\* torch.sum(preds, dim=1): sum over the model axis
SumDim1(t) ==
    [i \in DOMAIN t |->
        [k \in DOMAIN t[i][1] |->
            SumSeq([j \in DOMAIN t[i] |-> t[i][j][k]])]]

\* seeded fault: the sum is divided by the number of models
DivWrongCount(t, w) ==
    [i \in DOMAIN t |-> [k \in DOMAIN t[i] |-> <<t[i][k], Len(w)>>]]

\* preds / torch.sum(weights): every entry becomes the fraction <<num, den>>;
\* den = 0 is the float NaN (0/0) of an all-zero weight vector
DivByWeightSum(t, w) ==
    [i \in DOMAIN t |-> [k \in DOMAIN t[i] |-> <<t[i][k], SumSeq(w)>>]]

\* torch.argmax over a vector of fractions with a common denominator;
\* a vector of NaN gives index 0 (the first NaN)
ArgMaxFrac(p) ==
    IF p[1][2] = 0 THEN 0 ELSE ArgMax([k \in DOMAIN p |-> p[k][1]])

\* torch.bincount(y, weights=w): entry c (0-based class c at position c+1) is the
\* sum of the weights of the models whose vote is c; length max(y) + 1
Bincount(y, w) ==
    [c1 \in 1..(MaxOfSeq(y) + 1) |->
        SumSeq([j \in DOMAIN y |-> IF y[j] = c1 - 1 THEN w[j] ELSE 0])]

\* lines 152-155: the index found in the class histogram is used to index the
\* per-model vote vector y_pred_ensemble[b]
VotePredicted(y, w) ==
    LET predicted_index == ArgMax(Bincount(y, w))
    IN  IF predicted_index + 1 \in DOMAIN y
        THEN [ok |-> TRUE, val |-> y[predicted_index + 1]]
        ELSE [ok |-> FALSE, val |-> predicted_index]

\* EnsembleGraphClassifier.ensemble, from the stacked softmax outputs on
EnsembleOut(mode, w, preds, rp) ==
    LET mean == DivByWeightSum(SumDim1(Einsum(w, preds)), w)
        y_pred == [i \in DOMAIN preds |->
                      [j \in DOMAIN preds[i] |-> ArgMax(preds[i][j])]]
        votes == [i \in DOMAIN preds |-> VotePredicted(y_pred[i], w)]
    IN  IF mode = SOFTMAX_MEAN
        THEN IF rp
             THEN [kind |-> "probs", val |-> mean]
             ELSE [kind |-> "classes",
                   val |-> [i \in DOMAIN mean |-> ArgMaxFrac(mean[i])]]
        ELSE IF mode = VOTING
        THEN IF \E i \in DOMAIN votes : ~votes[i].ok
             THEN [kind |-> "IndexError"]
             ELSE [kind |-> "classes", val |-> [i \in DOMAIN votes |-> votes[i].val]]
        ELSE [kind |-> "per_model", val |-> y_pred]

\* EnsembleGraphClassifier.__init__ has run: a supported mode, one weight per model
InitEnsemble ==
    /\ SerIdle /\ FwdIdle /\ TrainIdle
    /\ ensemble_mode \in ENSEMBLE_MODES
    /\ \E n \in ModelCounts : weights \in SeqsOfLen(0..MaxWeight, n)
    /\ preds_ensemble = << >>
    /\ return_probs = FALSE
    /\ ens_result = NoResult
    /\ ens_init = [kind |-> "ok"]

\* the ensemble_mode setter: stores the value unchecked
SetEnsembleMode ==
    /\ ens_result = NoResult
    /\ \E m \in AnyModes : m # ensemble_mode /\ ensemble_mode' = m
    /\ UNCHANGED <<weights, preds_ensemble, return_probs, ens_result, ens_init,
                   serVars, fwdVars, trainVars>>

\* one call of ensemble(return_probs, inputs)
Ensemble ==
    /\ ens_result = NoResult
    /\ \E b \in 1..MaxBatch : \E rp \in BOOLEAN :
         \E p \in SeqsOfLen(SeqsOfLen(ProbVecs, Len(weights)), b) :
            /\ preds_ensemble' = p
            /\ return_probs' = rp
            /\ ens_result' = EnsembleOut(ensemble_mode, weights, p, rp)
    /\ UNCHANGED <<ensemble_mode, weights, ens_init, serVars, fwdVars, trainVars>>

\* the caller takes the result; the ensemble is ready for the next call
EnsembleReturn ==
    /\ ens_result # NoResult
    /\ ens_result' = NoResult
    /\ preds_ensemble' = << >>
    /\ return_probs' = FALSE
    /\ UNCHANGED <<ensemble_mode, weights, ens_init, serVars, fwdVars, trainVars>>

NextEnsemble == SetEnsembleMode \/ Ensemble \/ EnsembleReturn

SpecEnsemble == InitEnsemble /\ [][NextEnsemble]_vars

(***************************************************************************)
(* EnsembleGraphClassifier.__init__                                        *)
(***************************************************************************)
\* the weights argument: None, or a list of numbers
NoWeights == [none |-> TRUE, val |-> << >>]
WeightList(w) == [none |-> FALSE, val |-> w]

\* seeded fault: the number of weights is not compared with the number of models
EnsembleInitNoLenCheck(n, mode, w) ==
    IF mode \notin ENSEMBLE_MODES
    THEN [kind |-> "ValueError", why |-> "ensemble_mode"]
    ELSE [kind |-> "ok", why |-> "", ensemble_mode |-> mode,
          weights |-> IF w.none THEN [j \in 1..n |-> 1] ELSE w.val]

\* EnsembleGraphClassifier(models, ..., ensemble_mode, weights) with n models:
\* the two checks, then the fields of the new object
EnsembleInit(n, mode, w) ==
    IF mode \notin ENSEMBLE_MODES
    THEN [kind |-> "ValueError", why |-> "ensemble_mode"]
    ELSE IF ~w.none /\ Len(w.val) # n
    THEN [kind |-> "ValueError", why |-> "weights"]
    ELSE [kind |-> "ok", why |-> "", ensemble_mode |-> mode,
          weights |-> IF w.none THEN [j \in 1..n |-> 1] ELSE w.val]

\* no ensemble object exists yet
InitEnsembleCall ==
    /\ SerIdle /\ FwdIdle /\ TrainIdle
    /\ ensemble_mode = "unconstructed"
    /\ weights = << >>
    /\ preds_ensemble = << >>
    /\ return_probs = FALSE
    /\ ens_result = NoResult
    /\ ens_init = [kind |-> "none"]

\* one constructor call; a raise leaves no object behind
ConstructEnsemble ==
    /\ ens_init.kind = "none"
    /\ \E n \in ModelCounts, mode \in AnyModes :
         \E w \in {NoWeights} \cup
                  {WeightList(v) : v \in UNION {SeqsOfLen(0..MaxWeight, k) : k \in {n - 1, n, n + 1}}} :
            LET r == EnsembleInit(n, mode, w)
            IN  /\ ens_init' = [kind |-> r.kind, why |-> r.why, models |-> n,
                                ensemble_mode |-> mode, weights |-> w]
                /\ IF r.kind = "ok"
                   THEN ensemble_mode' = r.ensemble_mode /\ weights' = r.weights
                   ELSE UNCHANGED <<ensemble_mode, weights>>
    /\ UNCHANGED <<preds_ensemble, return_probs, ens_result, serVars, fwdVars, trainVars>>

NextEnsembleCall == ConstructEnsemble

SpecEnsembleCall == InitEnsembleCall /\ [][NextEnsembleCall]_vars

(***************************************************************************)
(* Constructor-parameter serialization of the three classifier variants    *)
(***************************************************************************)
BASE == "ProtMotionNet"
PAIRED == "PairedProtMotionNet"
TRANSFORMER == "TransformerPairedProtMotionNet"
Variants == {BASE, PAIRED, TRANSFORMER}

EmptyDict == [k \in {} |-> 0]
DictRemove(d, key) == [k \in DOMAIN d \ {key} |-> d[k]]
DictUpdate(d, e) == [k \in DOMAIN d \cup DOMAIN e |-> IF k \in DOMAIN e THEN e[k] ELSE d[k]]

\* parameters of each __init__ (self excluded)
BaseParams ==
    {"encoder", "encoder_out_channels", "dense_units", "dense_activations",
     "dim_features", "dropout", "readout"}
PairedParams == BaseParams \cup {"num_heads", "kdim", "vdim"}
TransformerParams == PairedParams \cup {"n_blocks", "d_ff", "ff_activation", "pre_norm"}
InitParams(cls) ==
    IF cls = BASE THEN BaseParams
    ELSE IF cls = PAIRED THEN PairedParams ELSE TransformerParams

\* the default values of the parameters that have one
BaseDefaults == [dropout |-> "0.0", readout |-> "mean_pool"]
PairedDefaults ==
    DictUpdate(BaseDefaults, [num_heads |-> 8, kdim |-> "None", vdim |-> "None"])
TransformerDefaults ==
    DictUpdate(PairedDefaults,
               [d_ff |-> "None", ff_activation |-> "gelu", pre_norm |-> TRUE])
InitDefaults(cls) ==
    IF cls = BASE THEN BaseDefaults
    ELSE IF cls = PAIRED THEN PairedDefaults ELSE TransformerDefaults

\* the parameters without a default: a call must bind every one of them
RequiredParams(cls) == InitParams(cls) \ DOMAIN InitDefaults(cls)

\* the keys of the two lookup tables of ProtMotionNet
READOUTS == {"mean_pool", "max_pool", "add_pool", "lstm", "softmax"}
ACTIVATIONS ==
    {"linear", "relu", "leaky_relu", "rrelu", "relu6", "gelu", "elu", "celu", "glu",
     "selu", "prelu", "silu", "hardswish", "tanh", "sigmoid", "softmax"}

InitError(kind, why) == [kind |-> kind, why |-> why]
NoInitError == InitError("ok", "")

\* line 72 and __resolve_readout
ResolveReadout(readout) ==
    IF readout \notin READOUTS
    THEN InitError("ValueError", "Readout function must be in READOUTS")
    ELSE NoInitError

\* the loop of lines 81-89: the name of every dense layer is looked up
BuildDenseLayers(dense_units, dense_activations) ==
    IF \E i \in 1..Len(dense_units) : dense_activations[i] \notin ACTIVATIONS
    THEN InitError("ValueError", "Activation function must be one of ACTIVATIONS")
    ELSE NoInitError

\* seeded fault: the feed-forward activation is looked up at first use only
FeedForwardDeferred(ff_activation) == NoInitError

\* line 375: self._ACTIVATIONS[ff_activation], a plain dict lookup
FeedForwardActivation(ff_activation) ==
    IF ff_activation \notin ACTIVATIONS
    THEN InitError("KeyError", "ff_activation")
    ELSE NoInitError

\* cls(**kwargs): Python's keyword binding, then the chain of __init__ bodies from
\* ProtMotionNet down to cls.  The arguments used here keep embed_dim divisible by
\* num_heads, so MultiheadAttention and TransformerEncoderLayer accept them.
Construct(cls, kwargs) ==
    IF DOMAIN kwargs \ InitParams(cls) # {}
    THEN [kind |-> "TypeError", why |-> "unexpected keyword argument"]
    ELSE IF RequiredParams(cls) \ DOMAIN kwargs # {}
    THEN [kind |-> "TypeError", why |-> "missing required argument"]
    ELSE
      LET args == DictUpdate(InitDefaults(cls), kwargs)
      IN  \* line 60: dense_units[-1] is evaluated for the super().__init__ call
          IF Len(args["dense_units"]) = 0
          THEN InitError("IndexError", "list index out of range")
          ELSE IF Len(args["dense_units"]) # Len(args["dense_activations"])
          THEN InitError("ValueError", "len(dense_activations) must be equal to len(dense_units)")
          ELSE IF ResolveReadout(args["readout"]).kind # "ok"
          THEN ResolveReadout(args["readout"])
          ELSE IF BuildDenseLayers(args["dense_units"], args["dense_activations"]).kind # "ok"
          THEN BuildDenseLayers(args["dense_units"], args["dense_activations"])
          ELSE IF cls = TRANSFORMER /\ FeedForwardActivation(args["ff_activation"]).kind # "ok"
          THEN FeedForwardActivation(args["ff_activation"])
          ELSE [kind |-> "ok", why |-> "", net |-> [cls |-> cls, args |-> args]]

\* ProtMotionNet.serialize_constructor_params
BaseSerialize(n) ==
    [encoder_out_channels |-> n.args["encoder_out_channels"],
     dense_units |-> n.args["dense_units"],
     dense_activations |-> n.args["dense_activations"],
     dropout |-> n.args["dropout"],
     readout |-> n.args["readout"],
     encoder |-> [constructor_params |-> n.args["encoder"].constructor_params,
                  state_dict |-> n.args["encoder"].state_dict]]

\* PairedProtMotionNet.serialize_constructor_params
PairedSerialize(n) ==
    DictUpdate(BaseSerialize(n),
               [num_heads |-> n.args["num_heads"], vdim |-> n.args["vdim"],
                kdim |-> n.args["kdim"]])

\* TransformerPairedProtMotionNet.serialize_constructor_params
TransformerSerialize(n) ==
    DictUpdate(PairedSerialize(n),
               [d_ff |-> n.args["d_ff"], pre_norm |-> n.args["pre_norm"],
                ff_activation |-> n.args["ff_activation"],
                n_blocks |-> n.args["n_blocks"]])

\* the method the instance's class resolves to
SerializeConstructorParams(n) ==
    IF n.cls = BASE THEN BaseSerialize(n)
    ELSE IF n.cls = PAIRED THEN PairedSerialize(n) ELSE TransformerSerialize(n)

\* encoder_constructor.from_constructor_params(...) + load_state_dict
RebuildEncoder(e) == [constructor_params |-> e.constructor_params, state_dict |-> e.state_dict]

\* ProtMotionNet.from_constructor_params (inherited by every variant): the result
\* and the dict as the call leaves it
FromConstructorParams(cls, d) ==
    IF "encoder" \notin DOMAIN d
    THEN [result |-> [kind |-> "KeyError", why |-> "encoder"], dict |-> d]
    ELSE LET encoder == RebuildEncoder(d["encoder"])
             rest == DictRemove(d, "encoder")
         IN  [result |-> Construct(cls, DictUpdate(rest, [encoder |-> encoder])),
              dict |-> rest]

Encoders == { [constructor_params |-> "enc_config", state_dict |-> "enc_weights"] }
DenseHeads == { [units |-> <<7>>, acts |-> <<"softmax">>],
                [units |-> <<16, 7>>, acts |-> <<"relu", "softmax">>] }

BaseArgs ==
    { [encoder |-> e, encoder_out_channels |-> 32, dense_units |-> h.units,
       dense_activations |-> h.acts, dim_features |-> f, dropout |-> dr, readout |-> r] :
        e \in Encoders, h \in DenseHeads, f \in {10, 20},
        dr \in {"0.0", "0.5"}, r \in {"mean_pool", "max_pool"} }
PairedArgs == { DictUpdate(a, [num_heads |-> nh]) : a \in BaseArgs, nh \in {4, 8} }
TransformerArgs ==
    { DictUpdate(a, [n_blocks |-> nb, pre_norm |-> pn]) :
        a \in PairedArgs, nb \in {1, 2}, pn \in BOOLEAN }

NoDes == [kind |-> "none"]

\* a classifier of one of the three variants has been constructed
InitSerial ==
    /\ EnsIdle /\ FwdIdle /\ TrainIdle
    /\ \E cls \in Variants :
        \E a \in (IF cls = BASE THEN BaseArgs
                  ELSE IF cls = PAIRED THEN PairedArgs ELSE TransformerArgs) :
            net = Construct(cls, a).net
    /\ constructor_params = EmptyDict
    /\ des_cls = "none"
    /\ des_result = NoDes
    /\ init_call = [kind |-> "none"]
    /\ dense_ops = << >>

\* constructor_params = model.serialize_constructor_params()
Serialize ==
    /\ constructor_params = EmptyDict
    /\ constructor_params' = SerializeConstructorParams(net)
    /\ UNCHANGED <<net, des_cls, des_result, init_call, dense_ops, ensVars, fwdVars, trainVars>>

\* cls.from_constructor_params(constructor_params, encoder_constructor)
Deserialize ==
    /\ constructor_params # EmptyDict
    /\ \E cls \in Variants :
        LET r == FromConstructorParams(cls, constructor_params)
        IN  /\ des_cls' = cls
            /\ des_result' = [kind |-> r.result.kind, why |-> r.result.why,
                              given |-> constructor_params,
                              net |-> IF r.result.kind = "ok" THEN r.result.net
                                      ELSE [cls |-> "none"]]
            /\ constructor_params' = r.dict
    /\ UNCHANGED <<net, init_call, dense_ops, ensVars, fwdVars, trainVars>>

NextSerial == Serialize \/ Deserialize

SpecSerial == InitSerial /\ [][NextSerial]_vars

(***************************************************************************)
(* Direct construction of a classifier, and its dense head                 *)
(***************************************************************************)
CLASSES == 7

\* dense_units and dense_activations of up to MaxLayers entries; "swish",
\* "attention" and "mish" stand for every name outside the lookup tables
UnitLists == UNION {SeqsOfLen({CLASSES}, n) : n \in 0..MaxLayers}
ActivationNames == {"relu", "softmax", "swish"}
ActivationLists == UNION {SeqsOfLen(ActivationNames, n) : n \in 0..MaxLayers}
ReadoutNames == {"mean_pool", "lstm", "attention"}
FeedForwardNames == {"gelu", "mish"}

InitArgs(cls) ==
    LET base == { [encoder |-> e, encoder_out_channels |-> 32, dense_units |-> u,
                   dense_activations |-> a, dim_features |-> 10, readout |-> r] :
                    e \in Encoders, u \in UnitLists, a \in ActivationLists,
                    r \in ReadoutNames }
    IN  IF cls = TRANSFORMER
        THEN { DictUpdate(b, [n_blocks |-> 1, ff_activation |-> f]) :
                 b \in base, f \in FeedForwardNames }
        ELSE base

NoNet == [cls |-> "none"]

\* no classifier has been constructed yet
InitConstruct ==
    /\ EnsIdle /\ FwdIdle /\ TrainIdle
    /\ net = NoNet
    /\ constructor_params = EmptyDict
    /\ des_cls = "none"
    /\ des_result = NoDes
    /\ init_call = [kind |-> "none"]
    /\ dense_ops = << >>

\* one call cls(**kwargs); a raise leaves no object behind
ConstructNet ==
    /\ init_call.kind = "none"
    /\ \E cls \in Variants : \E kwargs \in InitArgs(cls) :
        LET r == Construct(cls, kwargs)
        IN  /\ init_call' = [kind |-> r.kind, why |-> r.why, cls |-> cls, kwargs |-> kwargs]
            /\ net' = IF r.kind = "ok" THEN r.net ELSE net
    /\ UNCHANGED <<constructor_params, des_cls, des_result, dense_ops,
                   ensVars, fwdVars, trainVars>>

DenseOp(op, i, name) == [op |-> op, layer |-> i, name |-> name]

\* seeded fault: dropout follows every layer
DropoutAfterEvery(i, n) == i < n

\* line 102: whether dropout follows layer i (0-based) of n
DropoutAfter(i, n) == i < n - 1

\* the loop of _apply_dense_layers from layer i (0-based) on
RECURSIVE DenseLoop(_, _, _)
DenseLoop(activations, n, i) ==
    IF i >= n THEN << >>
    ELSE <<DenseOp("linear", i, ""), DenseOp("activation", i, activations[i + 1])>>
         \o (IF DropoutAfter(i, n) THEN <<DenseOp("dropout", i, "")>> ELSE << >>)
         \o DenseLoop(activations, n, i + 1)

\* _apply_dense_layers of a constructed classifier: one Linear per dense unit
ApplyDenseLayers(n) ==
    DenseLoop(n.args["dense_activations"], Len(n.args["dense_units"]), 0)

\* the dense head of the constructed classifier is applied to a readout
ApplyDense ==
    /\ net # NoNet
    /\ dense_ops = << >>
    /\ dense_ops' = ApplyDenseLayers(net)
    /\ UNCHANGED <<net, constructor_params, des_cls, des_result, init_call,
                   ensVars, fwdVars, trainVars>>

NextConstruct == ConstructNet \/ ApplyDense

SpecConstruct == InitConstruct /\ [][NextConstruct]_vars

(***************************************************************************)
(* PairedProtMotionNet.forward: the two graph batches of a call            *)
(***************************************************************************)
\* An argument is None, one tensor, or a tuple of tensors.  A tensor is named by
\* the graph batch it belongs to: 1 = before, 2 = after, 3.. = any further one.
NoneArg == [form |-> "none", items |-> << >>]
TensorArg(g) == [form |-> "tensor", items |-> <<g>>]
TupleArg(n) == [form |-> "tuple", items |-> [i \in 1..n |-> i]]

IsTuple(a) == a.form = "tuple"
IsNone(a) == a.form = "none"

FirstForms == {TensorArg(1)} \cup {TupleArg(n) : n \in 0..MaxTuple}
SecondForms == {NoneArg, TensorArg(2)}

NoFwd == [kind |-> "none"]
FwdValueError(arg) == [kind |-> "ValueError", arg |-> arg, encoder_runs |-> 0]

\* a batch_index made by torch.zeros: every node in graph 0 of its batch
ZerosArg(g) == [form |-> "zeros", items |-> <<g>>]

\* _get_multi_head_attention_embeddings, lines 225-264: the input check, the
\* choice of the two graph batches, and the two encoder runs
PairedInputs(a) ==
    IF IsTuple(a.x) /\ Len(a.x.items) < 2 THEN FwdValueError("x")
    ELSE IF ~IsTuple(a.x) /\ IsNone(a.x1) THEN FwdValueError("x")
    ELSE IF IsTuple(a.edge_index) /\ Len(a.edge_index.items) < 2
    THEN FwdValueError("edge_index")
    ELSE IF ~IsTuple(a.edge_index) /\ IsNone(a.edge_index1)
    THEN FwdValueError("edge_index")
    ELSE IF ~IsNone(a.batch_index) /\ IsTuple(a.batch_index) /\ Len(a.batch_index.items) < 2
    THEN FwdValueError("batch_index")
    ELSE IF ~IsNone(a.batch_index) /\ ~IsTuple(a.batch_index) /\ IsNone(a.batch_index1)
    THEN FwdValueError("batch_index")
    ELSE
        LET x0 == IF IsTuple(a.x) THEN TensorArg(a.x.items[1]) ELSE a.x
            x1 == IF IsTuple(a.x) THEN TensorArg(a.x.items[2]) ELSE a.x1
            e0 == IF IsTuple(a.edge_index) THEN TensorArg(a.edge_index.items[1])
                  ELSE a.edge_index
            e1 == IF IsTuple(a.edge_index) THEN TensorArg(a.edge_index.items[2])
                  ELSE a.edge_index1
            b0 == IF IsTuple(a.batch_index) THEN TensorArg(a.batch_index.items[1])
                  ELSE IF IsNone(a.batch_index) THEN ZerosArg(x0.items[1])
                  ELSE a.batch_index
            b1 == IF IsTuple(a.batch_index) THEN TensorArg(a.batch_index.items[2])
                  ELSE IF IsNone(a.batch_index) THEN ZerosArg(x1.items[1])
                  ELSE a.batch_index1
        IN  [kind |-> "ok", arg |-> "",
             encoder_runs |-> 2,
             before |-> [x |-> x0, edge_index |-> e0, batch_index |-> b0],
             after |-> [x |-> x1, edge_index |-> e1, batch_index |-> b1]]

InitForward ==
    /\ EnsIdle /\ SerIdle /\ TrainIdle
    /\ FwdIdle

\* one call model(x, edge_index, batch_index, x1, edge_index1, batch_index1)
PairedForward ==
    /\ fwd_result = NoFwd
    /\ \E x \in FirstForms, e \in FirstForms, b \in FirstForms \cup {NoneArg},
          x1 \in SecondForms, e1 \in SecondForms, b1 \in SecondForms :
        LET a == [form |-> "call", x |-> x, edge_index |-> e, batch_index |-> b,
                  x1 |-> x1, edge_index1 |-> e1, batch_index1 |-> b1]
        IN  /\ fwd_args' = a
            /\ fwd_result' = PairedInputs(a)
    /\ UNCHANGED <<fusion, test_call, ensVars, serVars, trainVars>>

NextForward == PairedForward

SpecForward == InitForward /\ [][NextForward]_vars

(***************************************************************************)
(* The paired forward pass from the two graph batches to the readout       *)
(***************************************************************************)
\* A graph batch is given by the node count of each of its graphs.  Its batch
\* vector assigns every node (row of x) the 0-based number of its graph.
PrefixSum(counts, g) == SumSeq(SubSeq(counts, 1, g))

BatchVector(counts) ==
    [i \in 1..SumSeq(counts) |->
        (CHOOSE g \in DOMAIN counts :
            PrefixSum(counts, g - 1) < i /\ i <= PrefixSum(counts, g)) - 1]

\* the tensor an argument of PairedInputs stands for: graph batch 1 is the
\* "before" batch nb, graph batch 2 the "after" batch na
CountsOf(arg, nb, na) == IF arg.items[1] = 1 THEN nb ELSE na

BatchTensor(arg, nb, na) ==
    IF arg.form = "zeros"
    THEN [i \in 1..SumSeq(CountsOf(arg, nb, na)) |-> 0]
    ELSE BatchVector(CountsOf(arg, nb, na))

\* number of nodes the batch vector assigns to graph b
NodesOf(index, b) == Cardinality({i \in DOMAIN index : index[i] = b})

\* to_dense_batch(x, batch): rows are graphs, padded to the largest graph; a cell
\* holds the row number of the node in x, or 0 (the fill value) where padded
ToDenseBatch(index) ==
    LET graphs == MaxOfSeq(index) + 1
        longest == MaxOfSeq([b \in 1..graphs |-> NodesOf(index, b - 1)])
        first(b) == Cardinality({i \in DOMAIN index : index[i] < b - 1})
    IN  [x |-> [b \in 1..graphs |->
                  [p \in 1..longest |->
                      IF p <= NodesOf(index, b - 1) THEN first(b) + p ELSE 0]],
         mask |-> [b \in 1..graphs |->
                     [p \in 1..longest |-> p <= NodesOf(index, b - 1)]]]

\* mask == False
InvertMask(mask) == [b \in DOMAIN mask |-> [p \in DOMAIN mask[b] |-> ~mask[b][p]]]

\* the (batch, length) shape of a dense tensor or mask
ShapeOf(t) == <<Len(t), Len(t[1])>>

\* from_dense_batch(dense, mask): the cells of the masked-true positions, row by
\* row and in order
RECURSIVE FromDenseBatch(_, _)
FromDenseBatch(dense, mask) ==
    IF dense = << >> THEN << >>
    ELSE SelectSeq([p \in DOMAIN dense[1] |-> IF mask[1][p] THEN dense[1][p] ELSE 0],
                   LAMBDA c : c # 0)
         \o FromDenseBatch(Tail(dense), Tail(mask))

\* _get_multi_head_attention_embeddings, lines 266-297, for the two batches that
\* the input check selected: the fused sequence has the rows of the query
NoEmbeddings == [x |-> << >>, key_padding_mask |-> << >>, batch_mask |-> << >>]

AttentionEmbeddings(sel, nb, na) ==
    LET dense0 == ToDenseBatch(BatchTensor(sel.before.batch_index, nb, na))
        dense1 == ToDenseBatch(BatchTensor(sel.after.batch_index, nb, na))
    IN  [x |-> dense1.x,
         key_padding_mask |-> InvertMask(dense0.mask),
         batch_mask |-> dense1.mask]

\* the value passed as index= to the readout
NoIndex == [form |-> "none", val |-> << >>]
IndexOf(arg, nb, na) ==
    IF IsNone(arg) THEN NoIndex
    ELSE IF IsTuple(arg) THEN [form |-> "tuple", val |-> << >>]
    ELSE [form |-> "tensor", val |-> BatchTensor(arg, nb, na)]

GroupBy(rows, val) ==
    [g \in 1..(MaxOfSeq(val) + 1) |-> {rows[i] : i \in {j \in DOMAIN rows : val[j] = g - 1}}]

\* self._readout_aggregation(x, index=index): one output row per group.  Without
\* an index all rows form one group; an index of one entry is expanded to every
\* row; an index of any other length than x cannot be expanded.
Readout(rows, index) ==
    IF index.form = "tuple"
    THEN [errors |-> {"AttributeError", "TypeError"}, groups |-> << >>]
    ELSE IF index.form = "none"
    THEN [errors |-> {}, groups |-> <<{rows[i] : i \in DOMAIN rows}>>]
    ELSE IF Len(index.val) = Len(rows)
    THEN [errors |-> {}, groups |-> GroupBy(rows, index.val)]
    ELSE IF Len(index.val) = 1
    THEN [errors |-> {}, groups |-> GroupBy(rows, [i \in DOMAIN rows |-> index.val[1]])]
    ELSE [errors |-> {"RuntimeError"}, groups |-> << >>]

ForwardOut(stage, emb, padding_mask, rows, index, r) ==
    [stage |-> stage, x |-> emb.x, batch_mask |-> emb.batch_mask,
     padding_mask |-> padding_mask, rows |-> rows, index |-> index,
     errors |-> r.errors, groups |-> r.groups]

\* PairedProtMotionNet.forward
PlainForward(a, nb, na) ==
    LET sel == PairedInputs(a)
    IN  IF sel.kind # "ok"
        THEN ForwardOut("input_check", NoEmbeddings, << >>, << >>, NoIndex,
                        [errors |-> {"ValueError"}, groups |-> << >>])
        ELSE LET emb == AttentionEmbeddings(sel, nb, na)
                 rows == FromDenseBatch(emb.x, emb.batch_mask)
                 index == IndexOf(a.batch_index1, nb, na)
             IN  ForwardOut("readout", emb, << >>, rows, index, Readout(rows, index))

\* TransformerPairedProtMotionNet.forward: the encoder stack rejects a padding
\* mask whose shape is not (batch, length) of its input
TransformerForward(a, nb, na) ==
    LET sel == PairedInputs(a)
    IN  IF sel.kind # "ok"
        THEN ForwardOut("input_check", NoEmbeddings, << >>, << >>, NoIndex,
                        [errors |-> {"ValueError"}, groups |-> << >>])
        ELSE LET emb == AttentionEmbeddings(sel, nb, na)
                 rows == FromDenseBatch(emb.x, emb.batch_mask)
                 index == IndexOf(a.batch_index, nb, na)
             IN  IF ShapeOf(emb.key_padding_mask) # ShapeOf(emb.x)
                 THEN ForwardOut("transformer", emb, emb.key_padding_mask, << >>, NoIndex,
                                 [errors |-> {"AssertionError", "RuntimeError"},
                                  groups |-> << >>])
                 ELSE ForwardOut("readout", emb, emb.key_padding_mask, rows, index,
                                 Readout(rows, index))

\* self(...): the forward of the instance's class
Forward(cls, a, nb, na) ==
    IF cls = TRANSFORMER THEN TransformerForward(a, nb, na) ELSE PlainForward(a, nb, na)

\* the six arguments of a call that passes the two batches as pairs, as six
\* explicit tensors, or not at all; batch vectors are optional
CallForms == {"tuple", "explicit"}
CallArgs(form, with_batch) ==
    IF form = "tuple"
    THEN [form |-> "call", x |-> TupleArg(2), edge_index |-> TupleArg(2),
          batch_index |-> IF with_batch THEN TupleArg(2) ELSE NoneArg,
          x1 |-> NoneArg, edge_index1 |-> NoneArg, batch_index1 |-> NoneArg]
    ELSE IF form = "explicit"
    THEN [form |-> "call", x |-> TensorArg(1), edge_index |-> TensorArg(1),
          batch_index |-> IF with_batch THEN TensorArg(1) ELSE NoneArg,
          x1 |-> TensorArg(2), edge_index1 |-> TensorArg(2),
          batch_index1 |-> IF with_batch THEN TensorArg(2) ELSE NoneArg]
    ELSE [form |-> "call", x |-> NoneArg, edge_index |-> NoneArg, batch_index |-> NoneArg,
          x1 |-> NoneArg, edge_index1 |-> NoneArg, batch_index1 |-> NoneArg]

\* a paired batch: the same number of graphs before and after, each graph with
\* its own node count; without batch vectors a call carries one graph per side
NodeCounts(graphs) == SeqsOfLen(1..MaxNodes, graphs)
GraphBatches(with_batch) ==
    { [before |-> nb, after |-> na] :
        nb \in NodeCounts(1), na \in NodeCounts(1) }
    \cup (IF with_batch
          THEN UNION { { [before |-> nb, after |-> na] :
                          nb \in NodeCounts(g), na \in NodeCounts(g) } : g \in 1..MaxGraphs }
          ELSE {})
NoBatches == [before |-> << >>, after |-> << >>]

NoFusion == [kind |-> "none"]
NoTest == [kind |-> "none"]

\* what one forward call leaves behind: its result, or one of the errors it can end in
ForwardRecord(cls, form, with_batch, d, r, e) ==
    [kind |-> IF r.errors = {} THEN "ok" ELSE "raised", error |-> e,
     cls |-> cls, form |-> form, with_batch |-> with_batch,
     before |-> d.before, after |-> d.after, out |-> r]

ErrorsOf(r) == IF r.errors = {} THEN {""} ELSE r.errors

InitFusion ==
    /\ EnsIdle /\ SerIdle /\ TrainIdle
    /\ fwd_args = [form |-> "none"]
    /\ fwd_result = NoFwd
    /\ fusion = NoFusion
    /\ test_call = NoTest

\* one call model(...) of a paired classifier on a paired batch
FusedForward ==
    /\ fusion = NoFusion /\ test_call = NoTest
    /\ \E cls \in {PAIRED, TRANSFORMER}, form \in CallForms, with_batch \in BOOLEAN :
         \E d \in GraphBatches(with_batch) :
            LET r == Forward(cls, CallArgs(form, with_batch), d.before, d.after)
            IN  \E e \in ErrorsOf(r) :
                    fusion' = ForwardRecord(cls, form, with_batch, d, r, e)
    /\ UNCHANGED <<fwd_args, fwd_result, test_call, ensVars, serVars, trainVars>>

\* seeded fault: forward runs whenever raw inputs are supplied
RunsForwardOnInputs(y_hat_given, inputs) == ~y_hat_given \/ inputs # "none"

\* line 352: if y_hat is None
RunsForward(y_hat_given, inputs) == ~y_hat_given

\* one call model.test(y, y_hat, x, edge_index, batch_index, x1, ...): the forward
\* call it makes, if any, and the evaluation of the logits by the base class
PairedTest ==
    /\ fusion = NoFusion /\ test_call = NoTest
    /\ \E cls \in {PAIRED, TRANSFORMER}, y_hat_given \in BOOLEAN,
          inputs \in CallForms \cup {"none"}, with_batch \in BOOLEAN :
         \E d \in (IF inputs = "none" THEN {NoBatches} ELSE GraphBatches(with_batch)) :
            IF RunsForward(y_hat_given, inputs)
            THEN LET r == Forward(cls, CallArgs(inputs, with_batch), d.before, d.after)
                 IN  \E e \in ErrorsOf(r) :
                        /\ fusion' = ForwardRecord(cls, inputs, with_batch, d, r, e)
                        /\ test_call' =
                              [kind |-> IF r.errors = {} THEN "evaluated" ELSE "raised",
                               error |-> e, y_hat |-> y_hat_given, inputs |-> inputs,
                               forward_runs |-> 1, logits |-> "forward"]
            ELSE /\ fusion' = fusion
                 /\ test_call' = [kind |-> "evaluated", error |-> "", y_hat |-> y_hat_given,
                                  inputs |-> inputs, forward_runs |-> 0, logits |-> "y_hat"]
    /\ UNCHANGED <<fwd_args, fwd_result, ensVars, serVars, trainVars>>

NextFusion == FusedForward \/ PairedTest

SpecFusion == InitFusion /\ [][NextFusion]_vars

(***************************************************************************)
(* train_paired_classifier                                                 *)
(***************************************************************************)
\* validation losses an evaluation pass can produce, and deltas, in tenths
LossValues == {9, 10, 11, 12}
Deltas == {0, 1}

\* the series of the MetricsHistoryTracer (top_k = 3)
Metrics ==
    {"avg_precision", "avg_recall", "avg_accuracy", "avg_top3_accuracy", "avg_f1",
     "val_loss", "train_loss"}

NoOutcome == [kind |-> "none"]
ValidFile(w) == [state |-> "valid", weights |-> w]
\* weights left at checkpoint_path by an earlier run in the same directory
StaleWeights == 0 - 1

\* EarlyStopping(patience, delta, path): no loss seen yet (seen = FALSE: best is unset)
NewMonitor == [seen |-> FALSE, best |-> 0, counter |-> 0, early_stop |-> FALSE]

\* whether val_loss improves on the best seen by more than delta
Improved(m, val_loss, delta) ==
    IF ~m.seen THEN TRUE ELSE val_loss < m.best - delta

\* monitor(val_loss, model): the monitor after the call
MonitorCall(m, val_loss, patience, delta) ==
    IF Improved(m, val_loss, delta)
    THEN [seen |-> TRUE, best |-> val_loss, counter |-> 0, early_stop |-> m.early_stop]
    ELSE [seen |-> TRUE, best |-> m.best, counter |-> m.counter + 1,
          early_stop |-> m.early_stop \/ (m.counter + 1 >= patience)]

\* monitor(val_loss, model): the checkpoint file after the call
MonitorCheckpoint(m, val_loss, delta, file, w) ==
    IF Improved(m, val_loss, delta) THEN ValidFile(w) ELSE file

\* mht.add_scalar for each of the seven series (lines 716-722)
AddScalars(h, train_loss, val_loss, scores) ==
    [name \in Metrics |->
        Append(h[name],
               IF name = "train_loss" THEN train_loss
               ELSE IF name = "val_loss" THEN val_loss ELSE scores)]

\* test_step_paired_classifier on weights w: the loss that pass measured
LossOfWeights(losses, w) == IF w + 1 \in DOMAIN losses THEN losses[w + 1] ELSE 0

\* train_paired_classifier has been called: monitor and tracer just built
InitTrain ==
    /\ EnsIdle /\ SerIdle /\ FwdIdle
    /\ pc = "validate_initial"
    /\ epochs \in 0..MaxEpochs
    /\ early_stopping_patience \in 1..MaxPatience
    /\ early_stopping_delta \in Deltas
    /\ epoch = 0
    /\ monitor = NewMonitor
    /\ checkpoint \in {[state |-> "absent"], ValidFile(StaleWeights)}
    /\ model_weights = 0
    /\ loss_of = << >>
    /\ mht = [name \in Metrics |-> << >>]
    /\ outcome = NoOutcome
    /\ trace = << >>

\* seeded fault: the monitor is not called after the initial validation pass
ValidateInitialNoMonitor ==
    /\ pc = "validate_initial"
    /\ \E val_loss \in LossValues : loss_of' = <<val_loss>>
    /\ trace' = Append(trace, "validate_initial")
    /\ pc' = IF 0 < epochs THEN "train_epoch" ELSE "finalize"
    /\ UNCHANGED <<epochs, early_stopping_patience, early_stopping_delta, epoch, monitor,
                   checkpoint, model_weights, mht, outcome, ensVars, serVars, fwdVars>>

\* lines 618-655: the validation pass before training and the first monitor call
ValidateInitial ==
    /\ pc = "validate_initial"
    /\ \E val_loss \in LossValues :
        /\ loss_of' = <<val_loss>>
        /\ monitor' = MonitorCall(monitor, val_loss, early_stopping_patience,
                                  early_stopping_delta)
        /\ checkpoint' = MonitorCheckpoint(monitor, val_loss, early_stopping_delta,
                                           checkpoint, model_weights)
    /\ trace' = trace \o <<"validate_initial", "monitor">>
    /\ pc' = IF 0 < epochs THEN "train_epoch" ELSE "finalize"
    /\ UNCHANGED <<epochs, early_stopping_patience, early_stopping_delta, epoch,
                   model_weights, mht, outcome, ensVars, serVars, fwdVars>>

\* seeded fault: the validation pass after the training epoch is skipped
TrainEpochNoValidation ==
    /\ pc = "train_epoch"
    /\ model_weights' = epoch + 1
    /\ trace' = Append(trace, "train_epoch")
    /\ pc' = "check_stop"
    /\ UNCHANGED <<epochs, early_stopping_patience, early_stopping_delta, epoch, monitor,
                   checkpoint, loss_of, mht, outcome, ensVars, serVars, fwdVars>>

\* lines 658-666: train_step_paired_classifier changes the weights
TrainEpoch ==
    /\ pc = "train_epoch"
    /\ model_weights' = epoch + 1
    /\ trace' = Append(trace, "train_epoch")
    /\ pc' = "validate_epoch"
    /\ UNCHANGED <<epochs, early_stopping_patience, early_stopping_delta, epoch, monitor,
                   checkpoint, loss_of, mht, outcome, ensVars, serVars, fwdVars>>

\* lines 668-675: the validation pass after the training epoch
ValidateEpoch ==
    /\ pc = "validate_epoch"
    /\ \E val_loss \in LossValues : loss_of' = Append(loss_of, val_loss)
    /\ trace' = Append(trace, "validate_epoch")
    /\ pc' = "check_stop"
    /\ UNCHANGED <<epochs, early_stopping_patience, early_stopping_delta, epoch, monitor,
                   checkpoint, model_weights, mht, outcome, ensVars, serVars, fwdVars>>

\* seeded fault: the loop does not break when the monitor has stopped
CheckStopNoBreak ==
    /\ pc = "check_stop"
    /\ LET val_loss == loss_of[Len(loss_of)]
           m == MonitorCall(monitor, val_loss, early_stopping_patience,
                            early_stopping_delta)
       IN  /\ monitor' = m
           /\ checkpoint' = MonitorCheckpoint(monitor, val_loss, early_stopping_delta,
                                              checkpoint, model_weights)
           /\ mht' = AddScalars(mht, model_weights, val_loss, model_weights)
           /\ epoch' = epoch + 1
           /\ pc' = IF epoch + 1 < epochs THEN "train_epoch" ELSE "finalize"
    /\ trace' = Append(trace, "monitor")
    /\ UNCHANGED <<epochs, early_stopping_patience, early_stopping_delta, model_weights,
                   loss_of, outcome, ensVars, serVars, fwdVars>>

\* seeded fault: the loop bound is off by one
CheckStopOneMore ==
    /\ pc = "check_stop"
    /\ LET val_loss == loss_of[Len(loss_of)]
           m == MonitorCall(monitor, val_loss, early_stopping_patience,
                            early_stopping_delta)
       IN  /\ monitor' = m
           /\ checkpoint' = MonitorCheckpoint(monitor, val_loss, early_stopping_delta,
                                              checkpoint, model_weights)
           /\ IF m.early_stop
              THEN /\ pc' = "finalize"
                   /\ UNCHANGED <<mht, epoch>>
              ELSE /\ mht' = AddScalars(mht, model_weights, val_loss, model_weights)
                   /\ epoch' = epoch + 1
                   /\ pc' = IF epoch + 1 <= epochs THEN "train_epoch" ELSE "finalize"
    /\ trace' = Append(trace, "monitor")
    /\ UNCHANGED <<epochs, early_stopping_patience, early_stopping_delta, model_weights,
                   loss_of, outcome, ensVars, serVars, fwdVars>>

\* lines 706-722 and the loop header 657: the monitor call, the break on
\* early_stop, else the history update and the next iteration
CheckStop ==
    /\ pc = "check_stop"
    /\ LET val_loss == loss_of[Len(loss_of)]
           m == MonitorCall(monitor, val_loss, early_stopping_patience,
                            early_stopping_delta)
       IN  /\ monitor' = m
           /\ checkpoint' = MonitorCheckpoint(monitor, val_loss, early_stopping_delta,
                                              checkpoint, model_weights)
           /\ IF m.early_stop
              THEN /\ pc' = "finalize"
                   /\ UNCHANGED <<mht, epoch>>
              ELSE /\ mht' = AddScalars(mht, model_weights, val_loss, model_weights)
                   /\ epoch' = epoch + 1
                   /\ pc' = IF epoch + 1 < epochs THEN "train_epoch" ELSE "finalize"
    /\ trace' = Append(trace, "monitor")
    /\ UNCHANGED <<epochs, early_stopping_patience, early_stopping_delta, model_weights,
                   loss_of, outcome, ensVars, serVars, fwdVars>>

\* what torch.load / load_state_dict raise for a file that cannot be restored
LoadErrors(file) ==
    IF file.state = "absent" THEN {"FileNotFoundError"}
    ELSE {"UnpicklingError", "RuntimeError"}

\* seeded fault: the checkpoint is not loaded into the model
FinalizeNoRestore ==
    /\ pc = "finalize"
    /\ IF checkpoint.state = "valid"
       THEN /\ model_weights' = model_weights
            /\ outcome' = [kind |-> "returned", model |-> model_weights,
                           metrics |-> [of_weights |-> model_weights,
                                        val_loss |-> LossOfWeights(loss_of, model_weights)],
                           history |-> mht]
            /\ trace' = trace \o <<"load_checkpoint", "validate_final">>
            /\ pc' = "returned"
       ELSE /\ \E e \in LoadErrors(checkpoint) : outcome' = [kind |-> "raised", error |-> e]
            /\ trace' = Append(trace, "load_checkpoint")
            /\ pc' = "raised"
            /\ UNCHANGED model_weights
    /\ UNCHANGED <<epochs, early_stopping_patience, early_stopping_delta, epoch, monitor,
                   checkpoint, loss_of, mht, ensVars, serVars, fwdVars>>

\* seeded fault: a checkpoint that cannot be loaded is skipped silently
FinalizeSilentFallback ==
    /\ pc = "finalize"
    /\ LET w == IF checkpoint.state = "valid" THEN checkpoint.weights ELSE model_weights
       IN  /\ model_weights' = w
           /\ outcome' = [kind |-> "returned", model |-> w,
                          metrics |-> [of_weights |-> w,
                                       val_loss |-> LossOfWeights(loss_of, w)],
                          history |-> mht]
    /\ trace' = trace \o <<"load_checkpoint", "validate_final">>
    /\ pc' = "returned"
    /\ UNCHANGED <<epochs, early_stopping_patience, early_stopping_delta, epoch, monitor,
                   checkpoint, loss_of, mht, ensVars, serVars, fwdVars>>

\* lines 724-782: the plots, model.load_state_dict(torch.load(checkpoint_path)),
\* the final validation pass on the restored weights, the return
Finalize ==
    /\ pc = "finalize"
    /\ IF checkpoint.state = "valid"
       THEN /\ model_weights' = checkpoint.weights
            /\ outcome' = [kind |-> "returned", model |-> checkpoint.weights,
                           metrics |-> [of_weights |-> checkpoint.weights,
                                        val_loss |-> LossOfWeights(loss_of, checkpoint.weights)],
                           history |-> mht]
            /\ trace' = trace \o <<"load_checkpoint", "validate_final">>
            /\ pc' = "returned"
       ELSE /\ \E e \in LoadErrors(checkpoint) : outcome' = [kind |-> "raised", error |-> e]
            /\ trace' = Append(trace, "load_checkpoint")
            /\ pc' = "raised"
            /\ UNCHANGED model_weights
    /\ UNCHANGED <<epochs, early_stopping_patience, early_stopping_delta, epoch, monitor,
                   checkpoint, loss_of, mht, ensVars, serVars, fwdVars>>

Running == pc \in {"validate_initial", "train_epoch", "validate_epoch", "check_stop", "finalize"}

\* the environment: the file at checkpoint_path is removed while the run goes on
CheckpointLost ==
    /\ Running
    /\ checkpoint.state = "valid"
    /\ checkpoint' = [state |-> "absent"]
    /\ UNCHANGED <<pc, epochs, early_stopping_patience, early_stopping_delta, epoch,
                   monitor, model_weights, loss_of, mht, outcome, trace,
                   ensVars, serVars, fwdVars>>

\* the environment: the file at checkpoint_path is damaged while the run goes on
CheckpointCorrupted ==
    /\ Running
    /\ checkpoint.state = "valid"
    /\ checkpoint' = [state |-> "corrupt"]
    /\ UNCHANGED <<pc, epochs, early_stopping_patience, early_stopping_delta, epoch,
                   monitor, model_weights, loss_of, mht, outcome, trace,
                   ensVars, serVars, fwdVars>>

NextTrain == ValidateInitial \/ TrainEpoch \/ ValidateEpoch \/ CheckStop \/ Finalize

\* a run whose checkpoint file nobody else touches
SpecTrain == InitTrain /\ [][NextTrain]_vars

NextTrainFault == NextTrain \/ CheckpointLost \/ CheckpointCorrupted

\* a run during which the checkpoint file can be removed or damaged
SpecTrainFault == InitTrain /\ [][NextTrainFault]_vars

(***************************************************************************)
(* Claims about EnsembleGraphClassifier.ensemble                           *)
(***************************************************************************)
Classes == {k - 1 : k \in DOMAIN (CHOOSE v \in ProbVecs : TRUE)}

\* the class model j voted for on batch element b
VoteOf(b, j) == ArgMax(preds_ensemble[b][j])

\* the weighted vote count of class c on batch element b
VoteCount(b, c) ==
    SumSeq([j \in DOMAIN weights |-> IF VoteOf(b, j) = c THEN weights[j] ELSE 0])

\* the classes that share the highest weighted vote count on batch element b
TopClasses(b) == {c \in Classes : \A d \in Classes : VoteCount(b, d) <= VoteCount(b, c)}

LowestOf(S) == CHOOSE c \in S : \A d \in S : c <= d

VotingCallDone == ens_result # NoResult /\ ensemble_mode = VOTING

\* C1: in voting mode ensemble returns, for every batch element, the class whose
\* weighted vote count is the highest, whenever that maximum is unique.
C1_VotingReturnsUniqueMax ==
    VotingCallDone =>
        \A b \in DOMAIN preds_ensemble :
            Cardinality(TopClasses(b)) = 1 =>
                /\ ens_result.kind = "classes"
                /\ ens_result.val[b] \in TopClasses(b)

\* C2: in voting mode, when two or more classes share the highest weighted vote
\* count, ensemble returns the lowest class index among the tied classes.
C2_VotingTieLowestIndex ==
    VotingCallDone =>
        \A b \in DOMAIN preds_ensemble :
            Cardinality(TopClasses(b)) >= 2 =>
                /\ ens_result.kind = "classes"
                /\ ens_result.val[b] = LowestOf(TopClasses(b))

\* sum over models j of w_j * p_j[k], for batch element b and 0-based class k
WeightedSum(b, k) ==
    SumSeq([j \in DOMAIN weights |-> weights[j] * preds_ensemble[b][j][k + 1]])

MeanCallDone ==
    ens_result # NoResult /\ ensemble_mode = SOFTMAX_MEAN /\ SumSeq(weights) > 0

ExamplePreds == << << <<70, 20, 10>>, <<60, 30, 10>> >> >>
ExampleMean == <<65, 25, 10>>

C4_SerializedParamsRebuildModel ==
    (/\ des_result # NoDes
     /\ des_cls = net.cls
     /\ des_result.given = SerializeConstructorParams(net)) =>
        /\ des_result.kind = "ok"
        /\ des_result.net = net

\* C5: from_constructor_params leaves the dict passed to it unchanged, the
\* encoder entry included.
C5_ConfigNotMutated ==
    des_result # NoDes =>
        /\ constructor_params = des_result.given
        /\ "encoder" \in DOMAIN constructor_params

(***************************************************************************)
(* Claims about PairedProtMotionNet.forward                                *)
(***************************************************************************)
\* how many items the call supplies for one of x, edge_index, batch_index
Supplied(first, second) ==
    (IF IsNone(first) THEN 0 ELSE Len(first.items)) + (IF IsNone(second) THEN 0 ELSE 1)

\* the arguments of the call that do not supply exactly two items (a batch
\* index left out altogether is the documented single-graph default)
MalformedArgs ==
    {arg \in {"x", "edge_index", "batch_index"} :
        LET n == IF arg = "x" THEN Supplied(fwd_args.x, fwd_args.x1)
                 ELSE IF arg = "edge_index"
                 THEN Supplied(fwd_args.edge_index, fwd_args.edge_index1)
                 ELSE Supplied(fwd_args.batch_index, fwd_args.batch_index1)
            omitted == /\ arg = "batch_index"
                       /\ IsNone(fwd_args.batch_index)
                       /\ IsNone(fwd_args.batch_index1)
        IN  n # 2 /\ ~omitted}

\* C6: a call that supplies, for node features, edge index or batch index, one
\* item only or more than two items fails with a ValueError that names a
\* malformed argument, before the encoder is run.
C6_WrongArityRejected ==
    (fwd_result # NoFwd /\ MalformedArgs # {}) =>
        /\ fwd_result.kind = "ValueError"
        /\ fwd_result.arg \in MalformedArgs
        /\ fwd_result.encoder_runs = 0

(***************************************************************************)
(* Claims about train_paired_classifier                                    *)
(***************************************************************************)
\* how many of the recorded validation losses the monitor has been given
Fed == IF pc = "check_stop" THEN Len(loss_of) - 1 ELSE Len(loss_of)

\* the best loss after the first n losses: a loss replaces the best only when
\* it is lower by more than delta
RECURSIVE BestAfter(_, _, _)
BestAfter(losses, n, delta) ==
    IF n = 1 THEN losses[1]
    ELSE IF losses[n] < BestAfter(losses, n - 1, delta) - delta THEN losses[n]
    ELSE BestAfter(losses, n - 1, delta)

\* the number of consecutive non-improving losses that end the first n losses
RECURSIVE NonImprovingRun(_, _, _)
NonImprovingRun(losses, n, delta) ==
    IF n <= 1 THEN 0
    ELSE IF losses[n] < BestAfter(losses, n - 1, delta) - delta THEN 0
    ELSE NonImprovingRun(losses, n - 1, delta) + 1

RECURSIVE CountOf(_, _)
CountOf(t, step) ==
    IF t = << >> THEN 0
    ELSE (IF Head(t) = step THEN 1 ELSE 0) + CountOf(Tail(t), step)

MinLoss(losses) == CHOOSE m \in {losses[i] : i \in DOMAIN losses} :
                       \A i \in DOMAIN losses : m <= losses[i]

Ended == pc \in {"returned", "raised"}

C8_NoEpochAfterStop ==
    [][ /\ monitor.early_stop =>
            /\ pc = "finalize"
            /\ pc' \in {"returned", "raised"}
            /\ CountOf(trace', "train_epoch") = CountOf(trace, "train_epoch")
            /\ CountOf(trace', "validate_epoch") = CountOf(trace, "validate_epoch")
        /\ (pc' = "returned" /\ ~monitor'.early_stop) =>
            CountOf(trace', "train_epoch") = epochs
        /\ CountOf(trace', "train_epoch") <= epochs ]_vars

\* a run has stopped early and returned with fewer epochs run than configured
C8_Witness ==
    /\ pc = "returned"
    /\ monitor.early_stop
    /\ CountOf(trace, "train_epoch") < epochs

\* C9 as stated: every run that returns holds the weights of the checkpoint
\* written at the lowest validation loss seen, and the final metrics are
\* measured on those restored weights.
C9_RestoresLowestLoss ==
    pc = "returned" =>
        /\ model_weights = checkpoint.weights
        /\ outcome.metrics.of_weights = model_weights
        /\ LossOfWeights(loss_of, model_weights) = MinLoss(loss_of)

\* C9 as amended: every run that returns holds the weights of the checkpoint the
\* monitor wrote last, at its best loss (the last loss lower than the best
\* before it by more than early_stopping_delta); no loss seen is lower than
\* that by more than delta, and it is the lowest loss seen when delta is 0; the
\* final metrics are measured on the restored weights.
C9_RestoresMonitorBest ==
    pc = "returned" =>
        /\ checkpoint.state = "valid"
        /\ model_weights = checkpoint.weights
        /\ outcome.model = model_weights
        /\ outcome.metrics.of_weights = model_weights
        /\ outcome.metrics.val_loss = LossOfWeights(loss_of, model_weights)
        /\ model_weights + 1 \in DOMAIN loss_of
        /\ loss_of[model_weights + 1] = BestAfter(loss_of, Len(loss_of), early_stopping_delta)
        /\ \A i \in DOMAIN loss_of :
              loss_of[i] >= loss_of[model_weights + 1] - early_stopping_delta
        /\ early_stopping_delta = 0 =>
              loss_of[model_weights + 1] = MinLoss(loss_of)

\* a run with a positive delta returned weights older than the last epoch's
\* whose loss is not the lowest seen
C9_Witness ==
    /\ pc = "returned"
    /\ early_stopping_delta > 0
    /\ model_weights < CountOf(trace, "train_epoch")
    /\ LossOfWeights(loss_of, model_weights) > MinLoss(loss_of)

\* C10 as stated: a checkpoint that is missing or corrupt at the restore makes
\* the run fail with a CheckpointError, with no model or metrics returned.
C10_RaisesCheckpointError ==
    (Ended /\ checkpoint.state # "valid") =>
        /\ outcome.kind = "raised"
        /\ outcome.error = "CheckpointError"

\* C10 as amended: a checkpoint that is missing or corrupt at the restore makes
\* the run fail with the error torch.load / load_state_dict raised
\* (FileNotFoundError for a missing file), propagated unchanged; no model or
\* metrics are returned, no final validation runs, and the weights in memory
\* are never used in place of the checkpoint.
C10_RestoreFailurePropagates ==
    Ended =>
        IF checkpoint.state = "valid"
        THEN outcome.kind = "returned" /\ outcome.model = checkpoint.weights
        ELSE /\ outcome.kind = "raised"
             /\ DOMAIN outcome = {"kind", "error"}
             /\ outcome.error \in {"FileNotFoundError", "UnpicklingError", "RuntimeError"}
             /\ checkpoint.state = "absent" => outcome.error = "FileNotFoundError"
             /\ CountOf(trace, "validate_final") = 0
             /\ trace[Len(trace)] = "load_checkpoint"

\* a run that trained at least one epoch failed at the restore of a missing file
C10_Witness ==
    /\ pc = "raised"
    /\ checkpoint.state = "absent"
    /\ outcome.error = "FileNotFoundError"
    /\ CountOf(trace, "train_epoch") > 0

(***************************************************************************)
(* Claims about the metrics history of train_paired_classifier             *)
(***************************************************************************)
IsPrefix(s, t) == Len(s) <= Len(t) /\ \A i \in DOMAIN s : s[i] = t[i]

\* C11: the metrics history is append-only, and when the run ends (early stop or
\* exhausted epoch budget) every series has the same length, equal to the number
\* of training epochs executed.
C11_HistoryOnePerEpoch ==
    [][ /\ \A name \in Metrics : IsPrefix(mht[name], mht'[name])
        /\ pc' \in {"returned", "raised"} =>
              \A name \in Metrics : Len(mht'[name]) = CountOf(trace', "train_epoch") ]_vars

\* the step at position i of the trace, "" outside it
StepAt(i) == IF i \in DOMAIN trace THEN trace[i] ELSE ""
Follows(i, step) == i + 1 \in DOMAIN trace => trace[i + 1] = step

\* C18: train_paired_classifier follows the order validate-initial, then repeated
\* (train-epoch, validate-epoch, check-stop), then finalize: validate-initial runs
\* exactly once and before any train-epoch, every train-epoch is immediately
\* followed by exactly one validation pass and one monitor update before the next
\* train-epoch can start, and finalize runs exactly once and last.
C18_StateOrder ==
    /\ trace # << >> => StepAt(1) = "validate_initial" /\ StepAt(2) = "monitor"
    /\ CountOf(trace, "validate_initial") <= 1
    /\ CountOf(trace, "load_checkpoint") <= 1
    /\ \A i \in DOMAIN trace :
          /\ trace[i] = "train_epoch" =>
                /\ StepAt(i - 1) = "monitor"
                /\ Follows(i, "validate_epoch")
          /\ trace[i] = "validate_epoch" =>
                /\ StepAt(i - 1) = "train_epoch"
                /\ Follows(i, "monitor")
          /\ trace[i] = "monitor" =>
                /\ StepAt(i - 1) \in {"validate_initial", "validate_epoch"}
                /\ i + 1 \in DOMAIN trace => trace[i + 1] \in {"train_epoch", "load_checkpoint"}
          /\ trace[i] = "load_checkpoint" =>
                /\ StepAt(i - 1) = "monitor"
                /\ Follows(i, "validate_final")
          /\ trace[i] = "validate_final" =>
                /\ StepAt(i - 1) = "load_checkpoint"
                /\ i = Len(trace)
    /\ pc \in {"train_epoch", "finalize"} => StepAt(Len(trace)) = "monitor"
    /\ pc = "validate_epoch" => StepAt(Len(trace)) = "train_epoch"
    /\ pc = "check_stop" => StepAt(Len(trace)) = "validate_epoch"
    /\ pc = "returned" =>
          /\ StepAt(Len(trace)) = "validate_final"
          /\ CountOf(trace, "validate_epoch") = CountOf(trace, "train_epoch")
          /\ CountOf(trace, "monitor") = CountOf(trace, "train_epoch") + 1

\* a run of two full epochs that has returned
C18_Witness ==
    /\ pc = "returned"
    /\ trace = <<"validate_initial", "monitor",
                 "train_epoch", "validate_epoch", "monitor",
                 "train_epoch", "validate_epoch", "monitor",
                 "load_checkpoint", "validate_final">>

(***************************************************************************)
(* Claims about EnsembleGraphClassifier.__init__                           *)
(***************************************************************************)
EnsembleCalled == ens_init.kind # "none"

\* the call has an unsupported mode or a number of weights other than the number
\* of models
BadEnsembleArgs ==
    \/ ens_init.ensemble_mode \notin ENSEMBLE_MODES
    \/ ~ens_init.weights.none /\ Len(ens_init.weights.val) # ens_init.models

NoEnsembleBuilt == ensemble_mode = "unconstructed" /\ weights = << >>

\* C12 as stated: an unsupported ensemble_mode, or a weight count that differs
\* from the model count, fails with a ConfigurationError and yields no ensemble;
\* with no weights every model gets the weight 1.0.
C12_RaisesConfigurationError ==
    EnsembleCalled =>
        /\ BadEnsembleArgs => ens_init.kind = "ConfigurationError" /\ NoEnsembleBuilt
        /\ (~BadEnsembleArgs /\ ens_init.weights.none) =>
               weights = [j \in 1..ens_init.models |-> 1]

\* C12 amended: such a call fails with a ValueError and yields no ensemble; every
\* other call builds the ensemble with the given mode, and with no weights every
\* model gets the weight 1.0.
C12_BadArgsRaiseValueError ==
    EnsembleCalled =>
        /\ BadEnsembleArgs => ens_init.kind = "ValueError" /\ NoEnsembleBuilt
        /\ ~BadEnsembleArgs =>
               /\ ens_init.kind = "ok"
               /\ ensemble_mode = ens_init.ensemble_mode
               /\ Len(weights) = ens_init.models
               /\ ens_init.weights.none => \A j \in DOMAIN weights : weights[j] = 1

\* three models and two weights
C12_Witness ==
    /\ EnsembleCalled
    /\ ens_init.models = 3
    /\ ens_init.ensemble_mode = VOTING
    /\ ~ens_init.weights.none /\ Len(ens_init.weights.val) = 2
    /\ ens_init.kind = "ValueError"

(***************************************************************************)
(* Claims about the classifier constructors and the dense head             *)
(***************************************************************************)
InitCalled == init_call.kind # "none"
GivenUnits == init_call.kwargs["dense_units"]
GivenActivations == init_call.kwargs["dense_activations"]
UnequalLengths == Len(GivenUnits) # Len(GivenActivations)
NoNetBuilt == net = NoNet /\ dense_ops = << >>

\* C13: a constructor call whose number of dense-layer widths differs from its
\* number of activation names fails with a ConfigurationError, for every pair of
\* unequal lengths (the empty width list included).  The class is granted here as
\* either ConfigurationError or the ValueError of lines 66-68, so that a violation
\* is a call the length check does not reject.
C13_UnequalLengthsRejected ==
    (InitCalled /\ UnequalLengths) =>
        /\ init_call.kind \in {"ConfigurationError", "ValueError"}
        /\ NoNetBuilt

\* the call names a readout or an activation outside the supported sets
BadReadoutName == init_call.kwargs["readout"] \notin READOUTS
BadDenseName == \E i \in DOMAIN GivenActivations : GivenActivations[i] \notin ACTIVATIONS
BadFeedForwardName ==
    init_call.cls = TRANSFORMER /\ init_call.kwargs["ff_activation"] \notin ACTIVATIONS
BadName == BadReadoutName \/ BadDenseName \/ BadFeedForwardName

\* C14 as stated: every activation and readout name (dense activations, readout,
\* transformer feed-forward activation) is checked at construction, and a name
\* outside the supported set fails construction with a ConfigurationError.
C14_BadNameRaisesConfigurationError ==
    (InitCalled /\ BadName) => init_call.kind = "ConfigurationError" /\ NoNetBuilt

\* C14 amended: a call with an unsupported name never yields a classifier (the
\* failure is at construction, not at first use); once the width list is
\* non-empty and as long as the activation list, an unsupported readout or dense
\* activation raises ValueError, else an unsupported feed-forward activation
\* raises KeyError.
C14_BadNameFailsConstruction ==
    (InitCalled /\ BadName) =>
        /\ init_call.kind \in {"IndexError", "ValueError", "KeyError"}
        /\ NoNetBuilt
        /\ (GivenUnits # << >> /\ ~UnequalLengths) =>
               init_call.kind = IF BadReadoutName \/ BadDenseName
                                THEN "ValueError" ELSE "KeyError"

\* an unsupported feed-forward activation with everything else valid
C14_Witness ==
    /\ InitCalled
    /\ BadFeedForwardName /\ ~BadReadoutName /\ ~BadDenseName
    /\ GivenUnits # << >> /\ ~UnequalLengths
    /\ init_call.kind = "KeyError"

\* the operations applied for layer i (0-based), in order
OpsOfLayer(i) == SelectSeq(dense_ops, LAMBDA o : o.layer = i)

\* C15: in the dense head with n layers, each layer applies its linear map, then
\* its own named activation; dropout follows layer i exactly when i < n - 1, and
\* the output of the final layer is never passed through dropout (also for n = 1).
C15_DropoutBetweenLayersOnly ==
    dense_ops # << >> =>
        LET n == Len(net.args["dense_units"])
            acts == net.args["dense_activations"]
        IN  /\ \A p, q \in DOMAIN dense_ops : p < q => dense_ops[p].layer <= dense_ops[q].layer
            /\ \A i \in 0..(n - 1) :
                  OpsOfLayer(i) =
                      <<DenseOp("linear", i, ""), DenseOp("activation", i, acts[i + 1])>>
                      \o (IF i < n - 1 THEN <<DenseOp("dropout", i, "")>> ELSE << >>)
            /\ \A p \in DOMAIN dense_ops : dense_ops[p].layer \in 0..(n - 1)
            /\ dense_ops[Len(dense_ops)].op = "activation"

\* a head of two layers: dropout after the first, none after the last
C15_Witness ==
    /\ dense_ops # << >>
    /\ Len(net.args["dense_units"]) = 2
    /\ Len(dense_ops) = 5

(***************************************************************************)
(* Claims about the paired forward pass and test                           *)
(***************************************************************************)
\* a forward call got past the input check, so both batches were fused
Fused == fusion # NoFusion /\ fusion.out.stage # "input_check"

\* the dense mask and the batch vector of the query-side ("after") batch
AfterVector == BatchVector(fusion.after)
AfterMask == ToDenseBatch(AfterVector).mask
AfterRows == [i \in 1..SumSeq(fusion.after) |-> i]

\* C16: in the transformer-augmented classifier the padding mask given to the
\* self-attention stack is derived from the query-side ("after") dense mask: a
\* position is excluded iff it is a padding position of the query-side sequence,
\* so the mask has the shape of the fused sequence even when the two batches have
\* different maximum node counts.
C16_TransformerMaskIsQuerySide ==
    (Fused /\ fusion.cls = TRANSFORMER) =>
        /\ fusion.out.padding_mask = InvertMask(AfterMask)
        /\ ShapeOf(fusion.out.padding_mask) = ShapeOf(fusion.out.x)

TestCalled == test_call # NoTest

\* C17 as stated: test accepts raw inputs, and then runs forward, or precomputed
\* logits, and then does not run forward, but not both: a call that supplies
\* both is not accepted.
C17_LogitsAndInputsRejected ==
    TestCalled =>
        /\ (~test_call.y_hat /\ test_call.inputs # "none") => test_call.forward_runs = 1
        /\ (test_call.y_hat /\ test_call.inputs = "none") =>
               test_call.forward_runs = 0 /\ test_call.kind = "evaluated"
        /\ (test_call.y_hat /\ test_call.inputs # "none") => test_call.kind = "raised"

\* C17 amended: with raw inputs only test runs forward once and evaluates its
\* output; whenever precomputed logits are supplied forward is not run and the
\* given logits are evaluated, raw inputs supplied next to them being ignored.
C17_LogitsTakePrecedence ==
    TestCalled =>
        /\ ~test_call.y_hat =>
               /\ test_call.forward_runs = 1 /\ test_call.logits = "forward"
               /\ fusion # NoFusion
               /\ test_call.kind = "evaluated" <=> fusion.kind = "ok"
        /\ test_call.y_hat =>
               /\ test_call.forward_runs = 0 /\ test_call.logits = "y_hat"
               /\ fusion = NoFusion
               /\ test_call.kind = "evaluated"

\* precomputed logits and raw inputs in the same call
C17_Witness ==
    /\ TestCalled
    /\ test_call.y_hat /\ test_call.inputs = "explicit"
    /\ test_call.kind = "evaluated" /\ test_call.forward_runs = 0

\* the same call in the other of the two forms
OtherForm(form) == IF form = "tuple" THEN "explicit" ELSE "tuple"
OtherCall ==
    Forward(fusion.cls, CallArgs(OtherForm(fusion.form), fusion.with_batch),
            fusion.before, fusion.after)

\* the fused nodes of every graph, grouped by the after-batch assignment
AfterGroups == GroupBy(AfterRows, AfterVector)

\* C19: the 2-tuple form of the paired forward gives the same result as the
\* explicit six-argument form: in both the readout groups the fused node
\* embeddings by the after-batch assignment and returns one row per graph.
C19_TupleEqualsExplicit ==
    (Fused /\ fusion.cls = PAIRED) =>
        /\ fusion.out.errors = OtherCall.errors
        /\ fusion.out.groups = OtherCall.groups
        /\ fusion.kind = "ok"
        /\ fusion.out.groups = AfterGroups
        /\ Len(fusion.out.groups) = Len(fusion.after)

\* the batch vector the readout works with: no index means one graph
EffectiveIndex(out) ==
    IF out.index.form = "none" THEN [i \in DOMAIN out.rows |-> 0] ELSE out.index.val

\* the same call made on the plain paired classifier
PlainCall ==
    Forward(PAIRED, CallArgs(fusion.form, fusion.with_batch), fusion.before, fusion.after)

\* C20: in both paired variants, after the conversion back to sparse form with
\* the query-side mask, the readout is indexed by the query-side ("after")
\* batch-assignment vector, whose length is the number of sparse fused nodes even
\* when the two batches differ in node count; the transformer variant uses the
\* same assignment vector as the plain paired variant.
C20_ReadoutIndexedByAfterBatch ==
    (Fused /\ fusion.out.stage = "readout") =>
        /\ fusion.out.rows = AfterRows
        /\ fusion.out.index.form # "tuple"
        /\ EffectiveIndex(fusion.out) = AfterVector
        /\ Len(EffectiveIndex(fusion.out)) = Len(fusion.out.rows)
        /\ fusion.cls = TRANSFORMER =>
               EffectiveIndex(fusion.out) = EffectiveIndex(PlainCall)

(***************************************************************************)
(* Claims about the ensemble_mode property                                 *)
(***************************************************************************)
\* C21: in every reachable state of an EnsembleGraphClassifier, after construction
\* and after any sequence of ensemble_mode assignments, ensemble_mode is one of
\* the two supported modes, so ensemble never returns a per-model result.
C21_ModeAlwaysSupported ==
    /\ ensemble_mode \in ENSEMBLE_MODES
    /\ ens_result # NoResult => ens_result.kind # "per_model"

(***************************************************************************)
(* Claims about the checkpoint of train_paired_classifier                  *)
(***************************************************************************)
\* the file at checkpoint_path holds weights this run produced
WrittenThisRun ==
    /\ checkpoint.state = "valid"
    /\ checkpoint.weights \in 0..CountOf(trace, "train_epoch")

\* C22: whenever train_paired_classifier reaches finalize, a checkpoint written
\* during this run exists at the checkpoint path: the monitor is updated with the
\* initial validation loss before any training epoch, which counts as an
\* improvement and writes a checkpoint, so the restore succeeds, also with zero
\* configured epochs or when no epoch improves on the initial validation loss.
C22_CheckpointExistsAtFinalize ==
    /\ pc # "validate_initial" => monitor.seen /\ WrittenThisRun
    /\ pc = "train_epoch" /\ epoch = 0 => checkpoint = ValidFile(0)
    /\ pc # "raised"
    /\ pc = "returned" => outcome.kind = "returned" /\ outcome.model = checkpoint.weights

\* zero configured epochs: finalize restores the checkpoint of the initial weights
C22_Witness ==
    /\ pc = "returned"
    /\ epochs = 0
    /\ checkpoint = ValidFile(0)
    /\ outcome.model = 0

\* a run stopped early in which no epoch improved on the initial validation loss
C22_NoImprovementRun ==
    /\ pc = "returned"
    /\ monitor.early_stop
    /\ CountOf(trace, "train_epoch") = 2
    /\ checkpoint = ValidFile(0)

====
